---- MODULE Spec2Model ----
(***************************************************************************)
(* Model of stonesoup/plotter.py: the Plotter chart builder (legend        *)
(* registry, ground truths, measurements, tracks) and the TimeBasedPlotter *)
(* animator (prepare_data, run_animation, update_animation).               *)
(***************************************************************************)
EXTENDS Integers, Sequences, FiniteSets, TLC

\* ------------------------------------------------------------------ bounds
MaxCalls == 2      \* plotting calls made on one Plotter
MaxPaths == 2      \* paths / tracks in one set argument
MaxStates == 2     \* states in one path / track
MaxMeas == 2       \* measurements in one plot_measurements argument
MaxSourceLen == 3  \* elements in the series given to a TimeBasedPlotter
MaxLen == 2        \* states in one animated series
MaxSeries == 2     \* TimeBasedPlotter objects given to run_animation
MaxFrames == 2     \* frame timestamps given to run_animation

VARIABLES
    handles_list,   \* Plotter.handles_list
    labels_list,    \* Plotter.labels_list
    legend,         \* the legend last rendered on Plotter.ax
    drawn,          \* artists the last call added to Plotter.ax
    warned,         \* warnings the last call emitted
    call,           \* the plotting call just made and the size of its input
    ncalls,         \* plotting calls made so far
    init_arg,       \* the series given to TimeBasedPlotter.__init__
    tbp,            \* the outcome of that construction
    data,           \* run_animation: the TimeBasedPlotter objects given
    times_to_plot,  \* run_animation: the frame timestamps given
    pc,             \* run_animation: where the call is
    idx,            \* run_animation: position of the loop over data
    the_lines,      \* run_animation: the line handles
    plotting_data,  \* run_animation: the collected series
    legends_key,    \* run_animation: the collected legend labels
    error,          \* run_animation: the exception raised, if any
    limits,         \* run_animation: the axis limits set
    fig_legend,     \* run_animation: the legend rendered
    frame,          \* position of the next frame to deliver
    line_ani        \* the animation object run_animation built

plotterVars == <<handles_list, labels_list, legend, drawn, warned, call, ncalls>>
initVars == <<init_arg, tbp>>
animVars == <<data, times_to_plot, pc, idx, the_lines, plotting_data, legends_key,
              error, limits, fig_legend, frame, line_ani>>
vars == <<plotterVars, initVars, animVars>>

\* ------------------------------------------------------------ input domains
\* a path (ground truth or track) is given by the number of its states
PathLengths == 0..MaxStates
RECURSIVE SeqsUpTo(_, _)
SeqsUpTo(S, n) ==
    IF n = 0 THEN {<<>>}
    ELSE LET shorter == SeqsUpTo(S, n - 1)
         IN  shorter \cup {Append(s, x) : s \in {t \in shorter : Len(t) = n - 1}, x \in S}

\* the truths / tracks argument: a set of paths, or one path that is no set
PathArgs ==
    {[isSet |-> TRUE, val |-> ps] : ps \in SeqsUpTo(PathLengths, MaxPaths)}
    \cup {[isSet |-> FALSE, val |-> n] : n \in PathLengths}

\* the number of paths an argument holds
NumPaths(arg) == IF arg.isSet THEN Len(arg.val) ELSE 1

\* timestamps of states and frames
Timestamps == {0, 1}

\* an element of the series given to a TimeBasedPlotter: its class, its
\* timestamp, its vector, and what its measurement model's inverse_function
\* does ("ok": returns; "AttributeError": no model or no such attribute;
\* "NotImplementedError": it raises that)
StateElems ==
    {[cls |-> "State", timestamp |-> t, state_vector |-> <<t, 0, t + 1>>,
      inverse |-> "AttributeError"] : t \in Timestamps}
DetectionElems ==
    {[cls |-> "Detection", timestamp |-> t, state_vector |-> <<t, t + 1>>,
      inverse |-> inv] :
        t \in Timestamps, inv \in {"ok", "AttributeError", "NotImplementedError"}}
OtherElems ==
    {[cls |-> "Other", timestamp |-> 0, state_vector |-> <<>>,
      inverse |-> "AttributeError"]}
Elems == StateElems \cup DetectionElems \cup OtherElems

\* a measurement: its class and the measurement model attached to it; an
\* object of another class comes with a model, so that its class is what
\* decides how it is handled
ModelKinds == {"None", "Linear", "NonLinear", "NonLinearNoInverse"}
MeasItems ==
    [kind : {"Detection", "Clutter"}, measurement_model : ModelKinds]
    \cup [kind : {"Other"}, measurement_model : {"Linear"}]

\* the measurements argument: a flat list, or a list of sets
FlatArgs == {[nested |-> FALSE, items |-> ms] : ms \in SeqsUpTo(MeasItems, MaxMeas)}
NestedArgs ==
    {[nested |-> TRUE, items |-> groups] :
        groups \in SeqsUpTo(SeqsUpTo(MeasItems, 1), MaxMeas - 1)}

MeasArgs == FlatArgs \cup NestedArgs

\* --------------------------------------------------------------- helpers
RECURSIVE SumSeq(_)
SumSeq(s) == IF s = <<>> THEN 0 ELSE Head(s) + SumSeq(Tail(s))

RECURSIVE Flatten(_)
Flatten(groups) == IF groups = <<>> THEN <<>> ELSE Head(groups) \o Flatten(Tail(groups))

\* the number of measurements an argument holds
NumMeasurements(arg) ==
    IF arg.nested THEN SumSeq([i \in 1..Len(arg.items) |-> Len(arg.items[i])])
    ELSE Len(arg.items)

NoDrawn == [lines |-> 0, detections |-> 0, clutter |-> 0, ellipses |-> 0, particles |-> 0]

Line2D(linestyle, marker, color) ==
    [artist |-> "Line2D", linestyle |-> linestyle, marker |-> marker, color |-> color]
EllipseHandle(color) ==
    [artist |-> "Ellipse", linestyle |-> "", marker |-> "", color |-> color]

\* ax.legend(handles=..., labels=..., handler_map=...)
RenderLegend(handles, labels, ellipseHandler) ==
    [handles |-> handles, labels |-> labels, handler_map |-> ellipseHandler]

\* a non-set argument is wrapped into a set of length 1
AsSet(arg) == IF arg.isSet THEN arg.val ELSE <<arg.val>>

\* ------------------------------------------------------------------ Plotter
PlotterInit ==
    /\ handles_list = <<>>
    /\ labels_list = <<>>
    /\ legend = RenderLegend(<<>>, <<>>, FALSE)
    /\ drawn = NoDrawn
    /\ warned = 0
    /\ call = [op |-> "init", nInput |-> 0, nStates |-> 0,
               uncertainty |-> FALSE, particle |-> FALSE]
    /\ ncalls = 0

\* fault variant: the whole set drawn by one ax.plot call
GroundTruthLinesOne(truths) == 1

\* one ax.plot call per ground truth path
GroundTruthLines(truths) == Len(truths)

plot_ground_truths(truths) ==
    LET truths_kwargs == [linestyle |-> "--"]
        paths == AsSet(truths)
        truths_handle == Line2D(truths_kwargs.linestyle, "", "black")
        handles == Append(handles_list, truths_handle)
        labels == Append(labels_list, "Ground Truth")
    IN  /\ drawn' = [NoDrawn EXCEPT !.lines = GroundTruthLines(paths)]
        /\ warned' = 0
        /\ handles_list' = handles
        /\ labels_list' = labels
        /\ legend' = RenderLegend(handles, labels, FALSE)
        /\ call' = [op |-> "plot_ground_truths", nInput |-> NumPaths(truths),
                    nStates |-> SumSeq(paths),
                    uncertainty |-> FALSE, particle |-> FALSE]

PlotGroundTruths ==
    /\ ncalls < MaxCalls
    /\ \E truths \in PathArgs : plot_ground_truths(truths)
    /\ ncalls' = ncalls + 1
    /\ UNCHANGED <<initVars, animVars>>

\* the measurement model used for a measurement: its own, else the argument
ResolveModel(state, measurement_model) ==
    IF state.measurement_model = "None" THEN measurement_model
    ELSE state.measurement_model

\* the state of the loop over the measurements
MeasLoopInit == [detections |-> 0, clutter |-> 0, warned |-> 0, clutter_handle |-> "None"]

\* the classification of a measurement whose state vector was recovered
ClassifyMeasurement(acc, state) ==
    IF state.kind = "Clutter"
    THEN [acc EXCEPT !.clutter = @ + 1, !.clutter_handle = "Clutter"]
    ELSE IF state.kind = "Detection"
    THEN [acc EXCEPT !.detections = @ + 1]
    ELSE [acc EXCEPT !.warned = @ + 1]

\* one iteration of the loop over the measurements
MeasurementStep(acc, state, measurement_model) ==
    LET meas_model == ResolveModel(state, measurement_model)
    IN  IF meas_model = "Linear" THEN ClassifyMeasurement(acc, state)
        ELSE IF meas_model = "NonLinear" THEN ClassifyMeasurement(acc, state)
        ELSE IF meas_model = "NonLinearNoInverse" THEN [acc EXCEPT !.warned = @ + 1]
        ELSE [acc EXCEPT !.warned = @ + 1]

\* fault variant: the loop ends at the first measurement it skips
RECURSIVE MeasurementLoopBreak(_, _, _)
MeasurementLoopBreak(acc, measurements_set, measurement_model) ==
    IF measurements_set = <<>> THEN acc
    ELSE LET next == MeasurementStep(acc, Head(measurements_set), measurement_model)
         IN  IF next.warned > acc.warned THEN next
             ELSE MeasurementLoopBreak(next, Tail(measurements_set), measurement_model)

\* the loop over the measurements
RECURSIVE MeasurementLoop(_, _, _)
MeasurementLoop(acc, measurements_set, measurement_model) ==
    IF measurements_set = <<>> THEN acc
    ELSE MeasurementLoop(MeasurementStep(acc, Head(measurements_set), measurement_model),
                         Tail(measurements_set), measurement_model)

\* chain.from_iterable when some item is a set
MeasurementsSet(measurements) ==
    IF measurements.nested /\ measurements.items # <<>>
    THEN Flatten(measurements.items)
    ELSE measurements.items

\* fault variant: the clutter handle is appended without its label
MeasurementLegendNoClutterLabel(acc, measurements_handle) ==
    IF acc.clutter_handle # "None"
    THEN [handles |-> <<measurements_handle, Line2D("", "2", "y")>>,
          labels |-> <<"Measurements">>]
    ELSE [handles |-> <<measurements_handle>>, labels |-> <<"Measurements">>]

\* fault variant: the clutter items are appended before the measurement items
MeasurementLegendClutterFirst(acc, measurements_handle) ==
    IF acc.clutter_handle # "None"
    THEN [handles |-> <<Line2D("", "2", "y"), measurements_handle>>,
          labels |-> <<acc.clutter_handle, "Measurements">>]
    ELSE [handles |-> <<measurements_handle>>, labels |-> <<"Measurements">>]

\* the legend items a plot_measurements call appends
MeasurementLegend(acc, measurements_handle) ==
    IF acc.clutter_handle # "None"
    THEN [handles |-> <<measurements_handle, Line2D("", "2", "y")>>,
          labels |-> <<"Measurements", acc.clutter_handle>>]
    ELSE [handles |-> <<measurements_handle>>, labels |-> <<"Measurements">>]

plot_measurements(measurements, measurement_model) ==
    LET measurement_kwargs == [marker |-> "o", color |-> "b"]
        measurements_handle == Line2D("", measurement_kwargs.marker, measurement_kwargs.color)
        measurements_set == MeasurementsSet(measurements)
    IN  \E acc \in {MeasurementLoop(MeasLoopInit, measurements_set, measurement_model)} :
        \E items \in {MeasurementLegend(acc, measurements_handle)} :
        /\ drawn' = [NoDrawn EXCEPT !.detections = acc.detections, !.clutter = acc.clutter]
        /\ warned' = acc.warned
        /\ handles_list' = handles_list \o items.handles
        /\ labels_list' = labels_list \o items.labels
        /\ legend' = RenderLegend(handles_list', labels_list', FALSE)
        /\ call' = [op |-> "plot_measurements",
                    nInput |-> NumMeasurements(measurements),
                    nStates |-> 0, uncertainty |-> FALSE, particle |-> FALSE]

PlotMeasurements ==
    /\ ncalls < MaxCalls
    /\ \E measurements \in MeasArgs, measurement_model \in ModelKinds :
          plot_measurements(measurements, measurement_model)
    /\ ncalls' = ncalls + 1
    /\ UNCHANGED <<initVars, animVars>>

\* one ellipse per state of each track
UncertaintyEllipses(tracks) == SumSeq(tracks)

\* one particle cloud per state of each track
ParticleClouds(tracks) == SumSeq(tracks)

\* fault variant: the particle flag is tested before the uncertainty flag
TrackExtrasParticleFirst(tracks, uncertainty, particle, color) ==
    IF particle
    THEN [ellipses |-> 0, particles |-> ParticleClouds(tracks),
          handles |-> <<Line2D("", ".", "black")>>,
          labels |-> <<"Particles">>, handler_map |-> FALSE]
    ELSE IF uncertainty
    THEN [ellipses |-> UncertaintyEllipses(tracks), particles |-> 0,
          handles |-> <<EllipseHandle(color)>>, labels |-> <<"Uncertainty">>,
          handler_map |-> TRUE]
    ELSE [ellipses |-> 0, particles |-> 0, handles |-> <<>>, labels |-> <<>>,
          handler_map |-> FALSE]

\* what plot_tracks draws and appends after the "Track" item
TrackExtras(tracks, uncertainty, particle, color) ==
    IF uncertainty
    THEN [ellipses |-> UncertaintyEllipses(tracks), particles |-> 0,
          handles |-> <<EllipseHandle(color)>>, labels |-> <<"Uncertainty">>,
          handler_map |-> TRUE]
    ELSE IF particle
    THEN [ellipses |-> 0, particles |-> ParticleClouds(tracks),
          handles |-> <<Line2D("", ".", "black")>>,
          labels |-> <<"Particles">>, handler_map |-> FALSE]
    ELSE [ellipses |-> 0, particles |-> 0, handles |-> <<>>, labels |-> <<>>,
          handler_map |-> FALSE]

\* one ax.plot call per track
TrackLines(tracks) == Len(tracks)

plot_tracks(tracks_arg, uncertainty, particle) ==
    LET tracks_kwargs == [linestyle |-> "-", marker |-> ".", color |-> "None"]
        tracks == AsSet(tracks_arg)
        track_handle == Line2D(tracks_kwargs.linestyle, tracks_kwargs.marker, "black")
        extras == TrackExtras(tracks, uncertainty, particle, tracks_kwargs.color)
        handles == Append(handles_list, track_handle) \o extras.handles
        labels == Append(labels_list, "Track") \o extras.labels
    IN  /\ drawn' = [NoDrawn EXCEPT !.lines = TrackLines(tracks),
                                    !.ellipses = extras.ellipses,
                                    !.particles = extras.particles]
        /\ warned' = 0
        /\ handles_list' = handles
        /\ labels_list' = labels
        /\ legend' = RenderLegend(handles, labels, extras.handler_map)
        /\ call' = [op |-> "plot_tracks", nInput |-> NumPaths(tracks_arg),
                    nStates |-> SumSeq(tracks),
                    uncertainty |-> uncertainty, particle |-> particle]

PlotTracks ==
    /\ ncalls < MaxCalls
    /\ \E tracks \in PathArgs, uncertainty \in BOOLEAN, particle \in BOOLEAN :
          plot_tracks(tracks, uncertainty, particle)
    /\ ncalls' = ncalls + 1
    /\ UNCHANGED <<initVars, animVars>>

\* --------------------------------------------------------- TimeBasedPlotter
IsState(x) == x.cls \in {"State", "Detection"}
IsDetection(x) == x.cls = "Detection"

None == [isNone |-> TRUE, states |-> <<>>]
Some(states) == [isNone |-> FALSE, states |-> states]

\* measurement_model.inverse_function: measurement space to state space
InverseFunction(a_detection) ==
    <<a_detection.state_vector[1], 0, a_detection.state_vector[2]>>

\* State(vector, timestamp=...)
NewState(state_vector, timestamp) ==
    [cls |-> "State", timestamp |-> timestamp, state_vector |-> state_vector,
     inverse |-> "AttributeError"]

\* the exception the list comprehension over the detections ends with
RECURSIVE FirstException(_)
FirstException(data_source) ==
    IF data_source = <<>> THEN "none"
    ELSE IF Head(data_source).inverse # "ok" THEN Head(data_source).inverse
    ELSE FirstException(Tail(data_source))

prepare_data(data_source) ==
    IF \A i \in 1..Len(data_source) : IsState(data_source[i])
    THEN IF \A i \in 1..Len(data_source) : IsDetection(data_source[i])
         THEN LET exc == FirstException(data_source)
              IN  IF exc = "none"
                  THEN [raised |-> "none",
                        output |-> Some([i \in 1..Len(data_source) |->
                                    NewState(InverseFunction(data_source[i]),
                                             data_source[i].timestamp)])]
                  ELSE IF exc = "AttributeError"
                  THEN [raised |-> "none", output |-> None]
                  ELSE [raised |-> exc, output |-> None]
         ELSE [raised |-> "none", output |-> Some(data_source)]
    ELSE [raised |-> "NotImplementedError", output |-> None]

\* TimeBasedPlotter.__init__: the object built, or the exception raised
TimeBasedPlotterInit(data_source) ==
    LET prepared == prepare_data(data_source)
    IN  [raised |-> prepared.raised,
         built |-> prepared.raised = "none",
         plotting_data |-> prepared.output]

NotBuilt == [raised |-> "none", built |-> FALSE, plotting_data |-> None]

InitIdle ==
    /\ init_arg = <<>>
    /\ tbp = NotBuilt

Construct ==
    /\ \E data_source \in SeqsUpTo(Elems, MaxSourceLen) :
          /\ init_arg' = data_source
          /\ tbp' = TimeBasedPlotterInit(data_source)
    /\ UNCHANGED <<plotterVars, animVars>>

\* ------------------------------------------------------------ run_animation
AnimIdle ==
    /\ data = <<>>
    /\ times_to_plot = <<>>
    /\ pc = "idle"
    /\ idx = 1
    /\ the_lines = <<>>
    /\ plotting_data = <<>>
    /\ legends_key = <<>>
    /\ error = "none"
    /\ limits = <<>>
    /\ fig_legend = <<>>
    /\ frame = 1
    /\ line_ani = "None"

\* the series a TimeBasedPlotter can hold after construction: one class of
\* elements per series
Homogeneous(data_source) ==
    \/ \A i \in 1..Len(data_source) : data_source[i].cls = "State"
    \/ \A i \in 1..Len(data_source) : data_source[i].cls = "Detection"
ConstructedData ==
    {TimeBasedPlotterInit(src).plotting_data :
        src \in {d \in SeqsUpTo(Elems, MaxLen) :
                    Homogeneous(d) /\ TimeBasedPlotterInit(d).built}}

\* the collections given to run_animation: object k is labelled and styled k
Collections ==
    {[k \in 1..Len(c) |-> [plotting_data |-> c[k], legend_key |-> ToString(k),
                           plotting_keyword_arguments |-> [zorder |-> k]]] :
        c \in SeqsUpTo(ConstructedData, MaxSeries)}

AnimInit ==
    /\ data \in Collections
    /\ times_to_plot \in SeqsUpTo(Timestamps, MaxFrames)
    /\ pc = "loop"
    /\ idx = 1
    /\ the_lines = <<>>
    /\ plotting_data = <<>>
    /\ legends_key = <<>>
    /\ error = "none"
    /\ limits = <<>>
    /\ fig_legend = <<>>
    /\ frame = 1
    /\ line_ani = "None"

\* the first and third components of a state vector
Point(a_state) == <<a_state.state_vector[1], a_state.state_vector[3]>>

\* plt.plot(the_data[:1, 0], the_data[:1, 2], **kwargs)[0]
InitialLine(a_plot_object) ==
    [kwargs |-> a_plot_object.plotting_keyword_arguments,
     points |-> <<Point(a_plot_object.plotting_data.states[1])>>]

\* fault variant: a series of zero states is passed over like a null one
CollectedNonEmpty(a_plot_object) ==
    /\ ~a_plot_object.plotting_data.isNone
    /\ a_plot_object.plotting_data.states # <<>>

\* whether the loop collects this object
Collected(a_plot_object) == ~a_plot_object.plotting_data.isNone

\* fault variant: the legend label is collected for a null series too
LoopIterationKeyAlways(lines, keys, series, a_plot_object) ==
    IF Collected(a_plot_object)
    THEN [the_lines |-> Append(lines, InitialLine(a_plot_object)),
          legends_key |-> Append(keys, a_plot_object.legend_key),
          plotting_data |-> Append(series, a_plot_object.plotting_data.states)]
    ELSE [the_lines |-> lines, legends_key |-> Append(keys, a_plot_object.legend_key),
          plotting_data |-> series]

\* the three lists after the loop body ran for one object
LoopIteration(lines, keys, series, a_plot_object) ==
    IF Collected(a_plot_object)
    THEN [the_lines |-> Append(lines, InitialLine(a_plot_object)),
          legends_key |-> Append(keys, a_plot_object.legend_key),
          plotting_data |-> Append(series, a_plot_object.plotting_data.states)]
    ELSE [the_lines |-> lines, legends_key |-> keys, plotting_data |-> series]

\* one iteration of the loop over data
RunAnimationLoop ==
    /\ pc = "loop"
    /\ idx <= Len(data)
    /\ LET a_plot_object == data[idx]
           after == LoopIteration(the_lines, legends_key, plotting_data, a_plot_object)
       IN  IF Collected(a_plot_object) /\ a_plot_object.plotting_data.states = <<>>
           THEN /\ pc' = "raised"
                /\ error' = "IndexError"
                /\ UNCHANGED <<idx, the_lines, legends_key, plotting_data>>
           ELSE /\ the_lines' = after.the_lines
                /\ legends_key' = after.legends_key
                /\ plotting_data' = after.plotting_data
                /\ idx' = idx + 1
                /\ UNCHANGED <<pc, error>>
    /\ UNCHANGED <<data, times_to_plot, limits, fig_legend, frame, line_ani>>
    /\ UNCHANGED <<plotterVars, initVars>>

MinOf(S) == CHOOSE x \in S : \A y \in S : x <= y
MaxOf(S) == CHOOSE x \in S : \A y \in S : x >= y

\* the generator "for line in data for state in line.plotting_data"
AllStates(objects) ==
    {s \in UNION {{o.plotting_data.states[i] : i \in 1..Len(o.plotting_data.states)} :
                    o \in {objects[k] : k \in 1..Len(objects)}} : TRUE}

\* the exception min()/max() over the generator end with
LimitsException(objects) ==
    IF \E k \in 1..Len(objects) : objects[k].plotting_data.isNone THEN "TypeError"
    ELSE IF AllStates(objects) = {} THEN "ValueError"
    ELSE "none"

AxisLimits(objects) ==
    LET xs == {s.state_vector[1] : s \in AllStates(objects)}
        ys == {s.state_vector[3] : s \in AllStates(objects)}
    IN  <<<<MinOf(xs), MaxOf(xs)>>, <<MinOf(ys), MaxOf(ys)>>>>

\* after the loop: axis limits, legend, FuncAnimation
RunAnimationSetup ==
    /\ pc = "loop"
    /\ idx = Len(data) + 1
    /\ LET exc == LimitsException(data)
       IN  IF exc # "none"
           THEN /\ pc' = "raised"
                /\ error' = exc
                /\ UNCHANGED <<limits, fig_legend, line_ani>>
           ELSE /\ limits' = AxisLimits(data)
                /\ fig_legend' = legends_key
                /\ line_ani' = "FuncAnimation"
                /\ pc' = IF times_to_plot = <<>> THEN "done" ELSE "animating"
                /\ UNCHANGED error
    /\ UNCHANGED <<data, times_to_plot, idx, the_lines, plotting_data, legends_key, frame>>
    /\ UNCHANGED <<plotterVars, initVars>>

\* fault variant: the states at the frame's own timestamp are left out
RECURSIVE VisibleDataStrict(_, _)
VisibleDataStrict(data_source, timestamp) ==
    IF data_source = <<>> THEN <<>>
    ELSE IF Head(data_source).timestamp < timestamp
    THEN <<Point(Head(data_source))>> \o VisibleDataStrict(Tail(data_source), timestamp)
    ELSE VisibleDataStrict(Tail(data_source), timestamp)

\* [a_state.state_vector for a_state in data_source if a_state.timestamp <= timestamp]
RECURSIVE VisibleData(_, _)
VisibleData(data_source, timestamp) ==
    IF data_source = <<>> THEN <<>>
    ELSE IF Head(data_source).timestamp <= timestamp
    THEN <<Point(Head(data_source))>> \o VisibleData(Tail(data_source), timestamp)
    ELSE VisibleData(Tail(data_source), timestamp)

\* the line of one series after a frame
UpdatedLine(line, data_source, timestamp) ==
    LET the_data == VisibleData(data_source, timestamp)
    IN  IF Len(the_data) > 0 THEN [line EXCEPT !.points = the_data] ELSE line

update_animation(timestamp, lines, data_list) ==
    [i \in 1..Len(lines) |->
        IF i <= Len(data_list) THEN UpdatedLine(lines[i], data_list[i], timestamp)
        ELSE lines[i]]

\* FuncAnimation delivers the next frame to update_animation
UpdateAnimation ==
    /\ pc = "animating"
    /\ frame <= Len(times_to_plot)
    /\ the_lines' = update_animation(times_to_plot[frame], the_lines, plotting_data)
    /\ frame' = frame + 1
    /\ pc' = IF frame = Len(times_to_plot) THEN "done" ELSE "animating"
    /\ UNCHANGED <<data, times_to_plot, idx, plotting_data, legends_key, error, limits,
                   fig_legend, line_ani>>
    /\ UNCHANGED <<plotterVars, initVars>>

\* ------------------------------------------------------------ specifications
Init == PlotterInit /\ InitIdle /\ AnimIdle
Next == PlotGroundTruths \/ PlotMeasurements \/ PlotTracks
Spec == Init /\ [][Next]_vars

SpecInitNext == Construct
SpecInit == Init /\ [][SpecInitNext]_vars

SpecAnimNext == RunAnimationLoop \/ RunAnimationSetup \/ UpdateAnimation
AnimStart == PlotterInit /\ InitIdle /\ AnimInit
SpecAnim == AnimStart /\ [][SpecAnimNext]_vars

\* ------------------------------------------------------- Plotter properties
IsPrefix(s, t) == Len(s) <= Len(t) /\ SubSeq(t, 1, Len(s)) = s

\* the labels the last step appended
Appended(old, new) == SubSeq(new, Len(old) + 1, Len(new))

\* C1: handles_list and labels_list always have the same length; every
\* plotting call keeps the old entries as a prefix of the new lists, appends
\* at least one entry, and renders the legend from the full accumulated lists.
C1_LegendRegistryAppendOnly ==
    [][/\ Len(handles_list') = Len(labels_list')
       /\ IsPrefix(handles_list, handles_list')
       /\ IsPrefix(labels_list, labels_list')
       /\ Len(labels_list') > Len(labels_list)
       /\ legend'.handles = handles_list'
       /\ legend'.labels = labels_list']_vars

C1_Witness ==
    /\ ncalls = 2
    /\ Len(labels_list) = 4
    /\ Len(handles_list) = 4
    /\ legend.labels = labels_list

\* C2: plot_ground_truths draws one line per path and appends exactly one
\* "Ground Truth" legend entry whatever the number of paths; a second call
\* appends a second entry.
C2_GroundTruthOneEntryPerCall ==
    [][call'.op = "plot_ground_truths" =>
          /\ drawn'.lines = call'.nInput
          /\ labels_list' = Append(labels_list, "Ground Truth")
          /\ Len(handles_list') = Len(handles_list) + 1]_vars

C2_Witness ==
    /\ call.op = "plot_ground_truths"
    /\ labels_list = <<"Ground Truth", "Ground Truth">>
    /\ call.nInput = 2
    /\ drawn.lines = 2

\* C3 as claimed: plotted detection points plus items skipped with a warning
\* equal the number of input measurements.
C3_DetectionsPlusSkippedIsTotal ==
    call.op = "plot_measurements" => drawn.detections + warned = call.nInput

\* C3 amended: plotted detection points plus plotted clutter points plus items
\* skipped with a warning equal the number of input measurements.
C3_PlottedPlusSkippedIsTotal ==
    call.op = "plot_measurements" =>
        drawn.detections + drawn.clutter + warned = call.nInput

C3_Witness ==
    /\ call.op = "plot_measurements"
    /\ call.nInput = 2
    /\ warned = 1
    /\ drawn.clutter = 1

\* C4: plot_measurements appends exactly one "Measurements" entry, followed by
\* exactly one "Clutter" entry if and only if a clutter point was plotted in
\* that call.
C4_MeasurementsThenClutter ==
    [][call'.op = "plot_measurements" =>
          /\ Appended(labels_list, labels_list') =
                IF drawn'.clutter > 0 THEN <<"Measurements", "Clutter">>
                ELSE <<"Measurements">>
          /\ Len(Appended(handles_list, handles_list')) =
                IF drawn'.clutter > 0 THEN 2 ELSE 1]_vars

C4_Witness ==
    /\ call.op = "plot_measurements"
    /\ drawn.clutter = 2
    /\ labels_list = <<"Measurements", "Measurements", "Clutter">>

AllOf(data_source, Test(_)) == \A i \in 1..Len(data_source) : Test(data_source[i])
LacksInverse(x) == x.inverse # "ok"

\* C6: construction has three outcomes: some element is no State: it fails;
\* all States, not all Detections: the series is stored as given; all
\* Detections: a new list of plain States with the same length and timestamps,
\* or null when a detection lacks the inverse capability.
C6_ThreeOutcomes ==
    tbp # NotBuilt =>
        /\ ~AllOf(init_arg, IsState) => ~tbp.built
        /\ AllOf(init_arg, IsState) /\ ~AllOf(init_arg, IsDetection) =>
              /\ tbp.built
              /\ tbp.plotting_data = Some(init_arg)
        /\ AllOf(init_arg, IsDetection) =>
              /\ tbp.built
              /\ tbp.plotting_data.isNone <=> ~AllOf(init_arg, LAMBDA x : ~LacksInverse(x))
              /\ ~tbp.plotting_data.isNone =>
                    /\ Len(tbp.plotting_data.states) = Len(init_arg)
                    /\ \A i \in 1..Len(init_arg) :
                          /\ tbp.plotting_data.states[i].cls = "State"
                          /\ tbp.plotting_data.states[i].timestamp = init_arg[i].timestamp

HasNull(objects) == \E k \in 1..Len(objects) : objects[k].plotting_data.isNone
HasEmpty(objects) ==
    \E k \in 1..Len(objects) :
        ~objects[k].plotting_data.isNone /\ objects[k].plotting_data.states = <<>>
HasNonEmpty(objects) ==
    \E k \in 1..Len(objects) :
        ~objects[k].plotting_data.isNone /\ objects[k].plotting_data.states # <<>>

\* C7: run_animation given a null series together with a non-null, non-empty
\* series completes its setup without raising.
C7_NullSeriesSkipped ==
    HasNull(data) /\ HasNonEmpty(data) /\ ~HasEmpty(data) => pc # "raised"

\* C8: run_animation raises and returns no animation object whenever the
\* collection is empty or holds a series of zero states; with one series of
\* one state at timestamp 0 and the frame list [0] it does not fail and the
\* line shows exactly one point.
C8_EmptyInputRaises ==
    /\ data = <<>> \/ HasEmpty(data) =>
          /\ pc \in {"loop", "raised"}
          /\ line_ani = "None"
          /\ \A k \in 1..(idx - 1) :
                data[k].plotting_data.isNone \/ data[k].plotting_data.states # <<>>
          /\ pc = "raised" /\ data = <<>> => error = "ValueError"
    /\ /\ Len(data) = 1
       /\ ~HasNull(data)
       /\ Len(data[1].plotting_data.states) = 1
       /\ data[1].plotting_data.states[1].timestamp = 0
       /\ times_to_plot = <<0>>
       => /\ pc # "raised"
          /\ pc = "done" =>
                /\ line_ani = "FuncAnimation"
                /\ Len(the_lines) = 1
                /\ the_lines[1].points = <<Point(data[1].plotting_data.states[1])>>

C8_Witness ==
    /\ pc = "raised"
    /\ error = "IndexError"
    /\ Len(data) = 2
    /\ Len(the_lines) = 1
    /\ line_ani = "None"

NonDecreasing(times) == \A i, j \in 1..Len(times) : i <= j => times[i] <= times[j]

\* C9: after a frame with timestamp t each line shows exactly the states of
\* its series with timestamp <= t, in series order, when there is one, and is
\* left as it was when there is none; with a non-decreasing frame list the
\* number of points a line shows never decreases.
C9_FrameShowsStatesUpToTimestamp ==
    [][frame' = frame + 1 =>
          /\ Len(the_lines') = Len(the_lines)
          /\ \A i \in 1..Len(plotting_data) :
                LET t == times_to_plot[frame]
                    vis == SelectSeq(plotting_data[i], LAMBDA s : s.timestamp <= t)
                IN  /\ IF vis # <<>>
                       THEN the_lines'[i].points = [j \in 1..Len(vis) |-> Point(vis[j])]
                       ELSE the_lines'[i].points = the_lines[i].points
                    /\ NonDecreasing(times_to_plot) =>
                          Len(the_lines'[i].points) >= Len(the_lines[i].points)]_vars

\* a frame list going back in time: the line keeps the two points of frame 1
C9_Witness ==
    /\ times_to_plot = <<1, 0>>
    /\ frame = 3
    /\ Len(plotting_data) = 1
    /\ \A j \in 1..Len(plotting_data[1]) : plotting_data[1][j].timestamp = 1
    /\ Len(the_lines[1].points) = 2

\* the positions of the non-null series among the first n objects
NonNullPositions(n) ==
    SelectSeq([k \in 1..n |-> k], LAMBDA k : ~data[k].plotting_data.isNone)

\* C10: the line, series and label lists have the same length, the number of
\* non-null series processed so far, position i of each refers to the same
\* input series, and line i shows only data of that series.
C10_ListsAligned ==
    LET nn == NonNullPositions(idx - 1)
    IN  /\ Len(the_lines) = Len(nn)
        /\ Len(plotting_data) = Len(nn)
        /\ Len(legends_key) = Len(nn)
        /\ \A i \in 1..Len(nn) :
              /\ the_lines[i].kwargs = data[nn[i]].plotting_keyword_arguments
              /\ legends_key[i] = data[nn[i]].legend_key
              /\ plotting_data[i] = data[nn[i]].plotting_data.states
              /\ \A j \in 1..Len(the_lines[i].points) :
                    \E m \in 1..Len(data[nn[i]].plotting_data.states) :
                        the_lines[i].points[j] = Point(data[nn[i]].plotting_data.states[m])

C10_Witness ==
    /\ Len(data) = 2
    /\ data[1].plotting_data.isNone
    /\ idx = 3
    /\ Len(the_lines) = 1
    /\ legends_key = <<data[2].legend_key>>
====
